---- MODULE Spec2Model ----
(***************************************************************************)
(* Model of the MLE API node controller (model.controller.js) and of the   *)
(* multipart importer it drives (import.services.js).                      *)
(*                                                                         *)
(* One request is in flight at a time.  Every awaited call of a handler is *)
(* appended to `log` when it is issued; every next(err) / res.json is      *)
(* appended to `responses`.  The relational store is the pair              *)
(* (nodes, comparisons).                                                   *)
(*                                                                         *)
(* A second specification, SpecEntity, models the entity instances of one  *)
(* constructor (construct.services.js) and sanitize (data.utils.js): the   *)
(* attribute object the instances refer to, and the calls made on them.    *)
(***************************************************************************)
EXTENDS Integers, Sequences, FiniteSets, TLC

\* ------------------------------------------------------------------ bounds
\* number of node id slots of the store; the slots after InitialIds are
\* free for the nodes that create inserts
MaxId == 5

Ids == 1 .. MaxId

\* the nodes of the initial store
InitialIds == 1 .. 4

\* "no id" / null
NULL == 0

\* ------------------------------------------------------- program constants
NodeTypes == {"surveyors", "locations", "historic_captures", "modern_captures"}

\* schema.rootNodeTypes
RootTypes == {"surveyors"}

CaptureTypes == {"historic_captures", "modern_captures"}

\* 'masterable' stands for every status outside the move whitelist
Statuses == {"unsorted", "sorted", "missing", "masterable"}

Ops == {"show", "add", "create", "edit", "update", "move", "remove"}

\* calls that change the store
MutatingCalls == {"mserve.move", "deleteComparisons", "mserve.remove",
                  "mserve.update", "updateComparisons",
                  "mserve.insert", "fserve.insert"}

\* calls of move and remove whose result decides a rejection
ValidationReads(op) ==
    IF op = "move"
    THEN {"nserve.get", "nserve.select", "getComparisonsMetadata", "isRelatable"}
    ELSE {"nserve.get", "getComparisonsMetadata"}

\* typed rejections of move and remove
Rejections == {"notFound", "restrictedByComparisons", "invalidMove", "23503"}

VARIABLES
    nodes,        \* store: node table, Ids -> row (type "" = no row)
    comparisons,  \* store: set of <<historic id, modern id>> pairs
    req,          \* the request in flight
    pc,           \* position of the handler
    client,       \* "none" | "held" | "undefined" | "released"
    log,          \* calls issued by the request, in order
    responses,    \* next(err) / res.json calls of the request, in order
    err,          \* error thrown inside the handler's try block ("" = none)
    unhandled,    \* the handler's promise (or the callback's) was rejected
    itemData,     \* local: result of nserve.get
    ownerData,    \* local: result of nserve.select (owner id or NULL)
    comps,        \* local: result of getComparisonsMetadata
    isMoveable,   \* local: result of isRelatable
    cb,           \* importer callback of create: position
    created,      \* id of the node inserted by create's callback (NULL = none)
    pre           \* history: what the store held for the request when it arrived

vars == <<nodes, comparisons, req, pc, client, log, responses, err, unhandled,
          itemData, ownerData, comps, isMoveable, cb, created, pre>>

store == <<nodes, comparisons>>
locals == <<itemData, ownerData, comps, isMoveable>>

\* ------------------------------------------------------------------ store
NoRow == [type |-> "", owner_id |-> NULL, status |-> "", files |-> FALSE]

Exists(id) == id \in Ids /\ nodes[id].type # ""

\* a node has dependents when it owns a node or a file
HasDependents(id) ==
    nodes[id].files \/ \E d \in Ids : nodes[d].type # "" /\ nodes[d].owner_id = id

NoItem == [found |-> FALSE, type |-> "", status |-> "", node |-> NULL,
           hasDependents |-> FALSE]

\* nserve.get(id, expectedType, client)
nserve_get(id, expectedType) ==
    IF ~Exists(id) \/ nodes[id].type # expectedType
    THEN NoItem
    ELSE [found |-> TRUE, type |-> nodes[id].type, status |-> nodes[id].status,
          node |-> id, hasDependents |-> HasDependents(id)]

\* nserve.select(id, client)
nserve_select(id) == IF Exists(id) THEN id ELSE NULL

\* getComparisonsMetadata(node, client)
getComparisonsMetadata(node) ==
    {p \in comparisons : p[1] = node \/ p[2] = node}

\* schema.services isRelatable: allow-list of owner types per node type
AllowedOwners(type) ==
    CASE type = "modern_captures"   -> {"locations"}
      [] type = "historic_captures" -> {"surveyors"}
      [] type = "locations"         -> {"surveyors"}
      [] OTHER                      -> {}

isRelatable(id, owner_id) ==
    Exists(id) /\ Exists(owner_id)
    /\ nodes[owner_id].type \in AllowedOwners(nodes[id].type)

\* what the store holds for a request on node id with candidate owner o
Snapshot(id, o) ==
    [row |-> nodes[id],
     comparisons |-> getComparisonsMetadata(id),
     hasDependents |-> HasDependents(id),
     owner |-> nserve_select(o),
     relatable |-> isRelatable(id, o),
     all |-> comparisons]

NoSnapshot ==
    [row |-> NoRow, comparisons |-> {}, hasDependents |-> FALSE,
     owner |-> NULL, relatable |-> FALSE, all |-> {}]

\* ------------------------------------------------- entity values (data.utils)
\* A JavaScript value: its typeof tag, its characters (strings) and its
\* number (numbers; booleans hold 1 / 0).  Strings are sequences of
\* one-character strings so that parsing and tag stripping are computed.
\* A number that is not an integer holds the digits of its fraction in s
\* (numbers below zero are integers here); an array holds its elements,
\* one-character strings, in s.
Null == [t |-> "null", s |-> <<>>, n |-> 0]

Str(chars) == [t |-> "string", s |-> chars, n |-> 0]

Num(k) == [t |-> "number", s |-> <<>>, n |-> k]

Bool(b) == [t |-> "boolean", s |-> <<>>, n |-> IF b THEN 1 ELSE 0]

Float(k, fraction) == [t |-> "number", s |-> fraction, n |-> k]

Arr(elems) == [t |-> "array", s |-> elems, n |-> 0]

Digits == <<"0", "1", "2", "3", "4", "5", "6", "7", "8", "9">>

IsDigit(c) == \E d \in 1 .. 10 : Digits[d] = c

DigitValue(c) == (CHOOSE d \in 1 .. 10 : Digits[d] = c) - 1

RECURSIVE NatToChars(_)
NatToChars(k) ==
    IF k < 10 THEN <<Digits[k + 1]>>
    ELSE Append(NatToChars(k \div 10), Digits[(k % 10) + 1])

\* elems.join(sep)
RECURSIVE Join(_, _)
Join(elems, sep) ==
    IF elems = <<>> THEN <<>>
    ELSE IF Len(elems) = 1 THEN <<Head(elems)>>
    ELSE <<Head(elems), sep>> \o Join(Tail(elems), sep)

\* String(data) / data.toString()
ToChars(data) ==
    CASE data.t = "string"  -> data.s
      [] data.t = "number"  -> IF data.n < 0 THEN <<"-">> \o NatToChars(0 - data.n)
                               ELSE IF data.s = <<>> THEN NatToChars(data.n)
                               ELSE NatToChars(data.n) \o <<".">> \o data.s
      [] data.t = "array"   -> Join(data.s, ",")
      [] data.t = "boolean" -> IF data.n = 1 THEN <<"t", "r", "u", "e">>
                               ELSE <<"f", "a", "l", "s", "e">>
      [] OTHER              -> <<"n", "u", "l", "l">>

RECURSIVE SkipSpaces(_)
SkipSpaces(chars) ==
    IF chars # <<>> /\ Head(chars) = " " THEN SkipSpaces(Tail(chars)) ELSE chars

\* value of the longest prefix of digits, acc being the value read so far
RECURSIVE DigitPrefix(_, _)
DigitPrefix(chars, acc) ==
    IF chars # <<>> /\ IsDigit(Head(chars))
    THEN DigitPrefix(Tail(chars), 10 * acc + DigitValue(Head(chars)))
    ELSE acc

\* parseInt(data): leading blanks, an optional sign, then the digit prefix;
\* NaN when no digit follows
parseInt(data) ==
    LET trimmed == SkipSpaces(ToChars(data))
        signed  == trimmed # <<>> /\ Head(trimmed) \in {"-", "+"}
        body    == IF signed THEN Tail(trimmed) ELSE trimmed
        value   == DigitPrefix(body, 0)
    IN  IF body = <<>> \/ ~IsDigit(Head(body))
        THEN [nan |-> TRUE, n |-> 0]
        ELSE [nan |-> FALSE,
              n |-> IF signed /\ Head(trimmed) = "-" THEN 0 - value ELSE value]

\* the longest prefix of digits
RECURSIVE TakeDigits(_)
TakeDigits(chars) ==
    IF chars # <<>> /\ IsDigit(Head(chars))
    THEN <<Head(chars)>> \o TakeDigits(Tail(chars))
    ELSE <<>>

\* digits without their trailing zeros
RECURSIVE DropZeros(_)
DropZeros(digits) ==
    IF digits # <<>> /\ digits[Len(digits)] = "0"
    THEN DropZeros(SubSeq(digits, 1, Len(digits) - 1))
    ELSE digits

\* parseFloat(data): leading blanks, an optional sign, digits, then an
\* optional "." and digits; NaN when there is no digit (exponents and
\* Infinity are not among the values drawn)
parseFloat(data) ==
    LET trimmed  == SkipSpaces(ToChars(data))
        signed   == trimmed # <<>> /\ Head(trimmed) \in {"-", "+"}
        body     == IF signed THEN Tail(trimmed) ELSE trimmed
        whole    == TakeDigits(body)
        rest     == SubSeq(body, Len(whole) + 1, Len(body))
        fraction == IF rest # <<>> /\ Head(rest) = "."
                    THEN TakeDigits(Tail(rest)) ELSE <<>>
        value    == DigitPrefix(whole, 0)
    IN  IF whole = <<>> /\ fraction = <<>>
        THEN [nan |-> TRUE, n |-> 0, s |-> <<>>]
        ELSE [nan |-> FALSE,
              n |-> IF signed /\ Head(trimmed) = "-" THEN 0 - value ELSE value,
              s |-> DropZeros(fraction)]

\* the characters of a string inside a JSON string: " and \ are escaped
RECURSIVE Escape(_)
Escape(chars) ==
    IF chars = <<>> THEN <<>>
    ELSE (IF Head(chars) \in {"\"", "\\"} THEN <<"\\", Head(chars)>>
          ELSE <<Head(chars)>>) \o Escape(Tail(chars))

Quoted(chars) == <<"\"">> \o Escape(chars) \o <<"\"">>

\* the elements of an array inside its JSON text
RECURSIVE QuotedElems(_)
QuotedElems(elems) ==
    IF elems = <<>> THEN <<>>
    ELSE IF Len(elems) = 1 THEN Quoted(<<Head(elems)>>)
    ELSE Quoted(<<Head(elems)>>) \o <<",">> \o QuotedElems(Tail(elems))

\* JSON.stringify(data)
Stringify(data) ==
    CASE data.t = "string" -> Quoted(data.s)
      [] data.t = "array"  -> <<"[">> \o QuotedElems(data.s) \o <<"]">>
      [] OTHER             -> ToChars(data)

\* position of the first ">" of chars at or after position from (0 = none)
FirstClose(chars, from) ==
    IF \E j \in from .. Len(chars) : chars[j] = ">"
    THEN CHOOSE j \in from .. Len(chars) :
            /\ chars[j] = ">"
            /\ \A k \in from .. j - 1 : chars[k] # ">"
    ELSE 0

\* data.toString().replace(/(<([^>]+)>)/ig, ''): every "<", one or more
\* characters other than ">", ">" is removed, scanning from the left
RECURSIVE StripTags(_)
StripTags(chars) ==
    IF chars = <<>> THEN <<>>
    ELSE LET close == FirstClose(chars, 2) IN
         IF Head(chars) = "<" /\ close > 2
         THEN StripTags(SubSeq(chars, close + 1, Len(chars)))
         ELSE <<Head(chars)>> \o StripTags(Tail(chars))

\* !!data
Truthy(data) ==
    CASE data.t = "null"    -> FALSE
      [] data.t = "string"  -> data.s # <<>>
      [] data.t = "array"   -> TRUE
      [] data.t = "number"  -> data.n # 0 \/ data.s # <<>>
      [] OTHER              -> data.n # 0

\* sanitize(data, datatype); a datatype without a sanitizer of its own
\* (also the undefined one, written "") takes the default sanitizer
sanitize(data, datatype) ==
    CASE datatype = "boolean" -> Bool(Truthy(data))
      [] datatype \in {"varying character", "text"} ->
            IF data = Null \/ data = Str(<<>>) THEN Str(<<>>)
            ELSE Str(StripTags(ToChars(data)))
      [] datatype = "integer" ->
            IF parseInt(data).nan THEN Null ELSE Num(parseInt(data).n)
      [] datatype \in {"double precision", "float"} ->
            IF parseFloat(data).nan THEN Null
            ELSE Float(parseFloat(data).n, parseFloat(data).s)
      [] datatype = "json" -> Str(Stringify(data))
      [] datatype = "USER-DEFINED" ->
            IF data.t # "array" THEN Null
            ELSE Str(<<"(">> \o Join(data.s, ",") \o <<")">>)
      [] OTHER -> IF data = Str(<<>>) THEN Null ELSE data

\* ------------------------------------------ entity instances (construct.services)
\* number of keys an input record holds at most
MaxKeys == 1

\* the attributes the schema of the entity type declares, with their types
DeclaredKeys == {"nodes_id", "owner_id", "remarks"}

\* schema.idKey
idKey == "nodes_id"

DeclaredType(k) == IF k = "remarks" THEN "text" ELSE "integer"

\* schema.attributes as `new Schema()` delivers it
SchemaAttributes == [k \in DeclaredKeys |-> [value |-> Null, type |-> DeclaredType(k)]]

\* a name the schema does not declare, and the name addAttribute is given
UnknownKey == "bogus"

ExtraKey == "fs_path"

Names == DeclaredKeys \cup {UnknownKey, ExtraKey}

\* the values callers write: null, '', '12'
InputValues == {Null, Str(<<>>), Str(<<"1", "2">>)}

\* two variables of the program that hold an instance: `item` is the one
\* the program works on, `other` is an instance of the same constructor
\* that is only built, without data, and read
Insts == {"item", "other"}

NoRecord == [k \in {} |-> Null]

\* the values of input records: '', '12'
RecordValues == {Str(<<>>), Str(<<"1", "2">>)}

\* flat input records of at most MaxKeys keys
Records ==
    UNION {[S -> RecordValues] :
           S \in {T \in SUBSET (DeclaredKeys \cup {UnknownKey}) : Cardinality(T) <= MaxKeys}}

\* the row of the node as nserve.get returns it in itemData.metadata
StoredMetadata ==
    [k \in DeclaredKeys |->
        CASE k = "nodes_id" -> Num(12)
          [] k = "owner_id" -> Null
          [] OTHER          -> Str(<<"1", "2">>)]

VARIABLES
    attributes,   \* schema.attributes of the constructor: name -> [value, type]
    instances,    \* per variable: what this.attributes of its instance is:
                  \* "shared" (schema.attributes), "array" (after clear()),
                  \* "none" (no instance yet)
    last          \* history: the last call on an instance, its arguments
                  \* and the entries of schema.attributes it altered

evars == <<attributes, instances, last>>

NoCall == [op |-> "none", by |-> "", name |-> "", type |-> "", value |-> Null,
           given |-> FALSE, x |-> NoRecord, threw |-> FALSE, handed |-> NoRecord,
           altered |-> {}, found |-> FALSE, label |-> <<>>]

EntityInit ==
    /\ attributes = SchemaAttributes
    /\ instances = [i \in Insts |-> "none"]
    /\ last = NoCall

\* this.attributes of instance i; the array that clear() leaves holds
\* undefined at its indices and has no named entry
Attrs(i) == IF instances[i] = "shared" THEN attributes ELSE NoRecord

\* this.attributes.hasOwnProperty(name)
HasOwn(i, name) == name \in DOMAIN Attrs(i)

\* getValue(field)
getValue(i, field) == IF HasOwn(i, field) THEN Attrs(i)[field].value ELSE Null

\* getData(): after clear() the keys of the array are indices that hold
\* undefined, and reading .value of the first throws a TypeError
getData(i) ==
    IF instances[i] = "shared"
    THEN [threw |-> FALSE, data |-> [k \in DOMAIN attributes |-> attributes[k].value]]
    ELSE [threw |-> TRUE, data |-> NoRecord]

\* setData(data) on the attribute object attrs: keys that are not own
\* properties are ignored, the others are stored sanitized by their type
setData(attrs, given, x) ==
    IF ~given THEN attrs
    ELSE [k \in DOMAIN attrs |->
            IF k \in DOMAIN x
            THEN [attrs[k] EXCEPT !.value = sanitize(x[k], attrs[k].type)]
            ELSE attrs[k]]

\* the entries in which the attribute object `to` differs from `from`
Altered(from, to) ==
    {k \in DOMAIN from \cup DOMAIN to :
        k \notin DOMAIN from \/ k \notin DOMAIN to \/ from[k] # to[k]}

\* a call `call` of instance i leaves its attribute object as attrs
Store(i, attrs, call) ==
    /\ attributes' = IF instances[i] = "shared" THEN attrs ELSE attributes
    /\ last' = [call EXCEPT !.altered = Altered(attributes, attributes')]

Call(op, i) == [NoCall EXCEPT !.op = op, !.by = i]


\* ------------------------------------------------ moveFiles (queue.services)
\* number of files one move hands to moveFiles
MaxFiles == 2

Files == 1 .. MaxFiles

\* the statements update(file, metadata, client) issues between BEGIN and COMMIT
FileStatements == <<"touch", "file", "metadata">>

VARIABLES
    mpc,        \* per file: position of its async function in moveFiles
    txn,        \* transaction state of the one client: "none" | "open" | "aborted"
    pending,    \* <<file, statement>> applied inside the open transaction
    committed   \* <<file, statement>> that are durable

mvars == <<mpc, txn, pending, committed>>

MoveFilesInit ==
    /\ mpc = [f \in Files |-> "start"]
    /\ txn = "none"
    /\ pending = {}
    /\ committed = {}


\* ------------------------------------------------------- logs (admin route)
\* number of entries the log directory holds at most
MaxEntries == 3

Entries == 1 .. MaxEntries

VARIABLES
    ldir,       \* the log directory: entry -> "absent" | "log" | "other"
    lpc,        \* "idle" | "readdir" | "reading" | "over"
    lfile,      \* per entry: "none" | "pending" | "ok" | "failed" (fs.readFile)
    lres        \* next(err) / res.json calls of the request, in order

lvars == <<ldir, lpc, lfile, lres>>

LogsInit ==
    /\ ldir = [e \in Entries |-> "absent"]
    /\ lpc = "idle"
    /\ lfile = [e \in Entries |-> "none"]
    /\ lres = <<>>


\* ------------------------------------------------- importer (file parts)
\* number of file parts of one multipart request at most
MaxParts == 2

ImageFileTypes == {"historic_images", "modern_images", "supplemental_images"}

FileTypes == ImageFileTypes \cup {"metadata_files"}

\* a part name is a sequence of tokens: the file type, optionally followed
\* by '[', an index digit and ']'
PartNames ==
    {<<ft>> : ft \in FileTypes} \cup {<<ft, "[", "0", "]">> : ft \in FileTypes}

\* classes of MIME types
MimeTypes == {"image", "document", "disallowed"}

allowedMIME(mimeType) == mimeType # "disallowed"

allowedImageMIME(mimeType) == mimeType = "image"

VARIABLES
    ipc,        \* "parsing" | "closed"
    parts,      \* the file parts busboy has emitted: name and MIME type
    fileList,   \* the files array of receive, in push order
    tmpFiles,   \* parts piped into a temporary file
    icalls      \* calls of the callback of receive: the error message or "result"

ivars == <<ipc, parts, fileList, tmpFiles, icalls>>

ImportInit ==
    /\ ipc = "parsing"
    /\ parts = <<>>
    /\ fileList = <<>>
    /\ tmpFiles = {}
    /\ icalls = <<>>

\* ------------------------------------------------------------ bulkDownload
\* number of chunks a file stream delivers at most
MaxChunks == 5

\* the rows of the files table: file 12 is an image, file 7 a metadata file
StoredFiles ==
    [id \in {7, 12} |->
        [file_type |-> IF id = 12 THEN "historic_images" ELSE "metadata_files",
         fs_path |-> IF id = 12 THEN "image.tif" ELSE "notes.pdf",
         secure_token |-> IF id = 12 THEN "token12" ELSE "token7"]]

\* the object {} the destructuring default puts in place of a missing file
EmptyFile == [file_type |-> "", fs_path |-> "", secure_token |-> ""]

\* file_id values of the query string
FileIdInputs == {Str(<<>>), Str(<<"7">>), Str(<<"1", "2">>), Str(<<"3">>), Str(<<"x">>)}

Versions == {"raw", "medium"}

VARIABLES
    dpc,        \* "idle" | "get" | "download" | "returned" | "threw"
    dreq,       \* the request: file_id and version
    dpath,      \* the path handed to download
    dstream,    \* "none" | "open" | "ended" | "failed"
    dchunks,    \* chunks piped into the response
    dpromise,   \* the promise of download: "none" | "pending" | "resolved" | "rejected"
    dres        \* next(err) calls of bulkDownload

dvars == <<dpc, dreq, dpath, dstream, dchunks, dpromise, dres>>

DownloadInit ==
    /\ dpc = "idle"
    /\ dreq = [file_id |-> Str(<<>>), version |-> "medium"]
    /\ dpath = <<>>
    /\ dstream = "none"
    /\ dchunks = 0
    /\ dpromise = "none"
    /\ dres = <<>>

\* ------------------------------------------------------- sanitize applied
\* number of times a value is sanitized at most
MaxPasses == 3

\* the PostgreSQL data types sanitize knows, and one it does not
Datatypes ==
    {"boolean", "varying character", "text", "integer", "double precision",
     "float", "json", "USER-DEFINED", "timestamp"}

\* values handed to sanitize
SanitizeInputs ==
    {Null, Bool(TRUE), Num(12), Float(1, <<"5">>),
     Str(<<>>), Str(<<"1", "2">>), Str(<<"1", ".", "5", "0">>), Str(<<"x">>),
     Str(<<"<", "b", ">", "x">>), Str(<<"<", "<", "b", ">", "b", ">">>),
     Arr(<<>>), Arr(<<"1", "2">>)}

VARIABLES
    stype,      \* the data type of the attribute, "" before the first pass
    sdata,      \* the value as it stands
    sbefore,    \* the value before the last pass
    passes      \* number of passes made

zvars == <<stype, sdata, sbefore, passes>>

SanitizeInit ==
    /\ stype = ""
    /\ sdata = Null
    /\ sbefore = Null
    /\ passes = 0

\* variables of the services beside the controller and the entity instances
svars == <<mvars, lvars, ivars, dvars, zvars>>

\* ------------------------------------------------------------------ init
Init ==
    /\ \E st \in Statuses :
         nodes = [i \in Ids |->
            CASE i = 1 -> [type |-> "surveyors", owner_id |-> NULL, status |-> "", files |-> FALSE]
              [] i = 2 -> [type |-> "locations", owner_id |-> 1, status |-> "", files |-> FALSE]
              [] i = 3 -> [type |-> "modern_captures", owner_id |-> 2, status |-> st, files |-> FALSE]
              [] i = 4 -> [type |-> "historic_captures", owner_id |-> 1, status |-> "sorted", files |-> TRUE]
              [] OTHER -> NoRow]
    /\ comparisons = {<<4, 3>>}
    /\ req = [op |-> "none", nodeType |-> "", id |-> NULL, owner_id |-> NULL,
           submitted |-> NULL]
    /\ pc = "idle"
    /\ client = "none"
    /\ log = <<>>
    /\ responses = <<>>
    /\ err = ""
    /\ unhandled = FALSE
    /\ itemData = NoItem
    /\ ownerData = NULL
    /\ comps = {}
    /\ isMoveable = FALSE
    /\ cb = "none"
    /\ created = NULL
    /\ pre = NoSnapshot
    /\ EntityInit
    /\ MoveFilesInit
    /\ LogsInit
    /\ ImportInit
    /\ DownloadInit
    /\ SanitizeInit


\* ------------------------------------------------------- shared plumbing
\* the calls of cs that are issued when call number t throws (0 = none throws)
Issued(cs, t) == IF t = 0 THEN cs ELSE SubSeq(cs, 1, t)

\* which call of cs may throw; the first use of a missing client always does
ThrowAt(cs) == IF client = "undefined" THEN {1} ELSE 0 .. Len(cs)

FirstStep(op) ==
    CASE op = "show"   -> "show_get"
      [] op = "add"    -> "add_respond"
      [] op = "create" -> "create_begin"
      [] op = "edit"   -> "edit_get"
      [] op = "update" -> "update_get"
      [] op = "move"   -> "move_lookup"
      [] op = "remove" -> "remove_lookup"

\* the handler has returned and the importer callback (if any) has finished
RequestOver == pc = "done" /\ cb \in {"none", "done", "failed"}

NoRequest == [op |-> "none", nodeType |-> "", id |-> NULL, owner_id |-> NULL,
           submitted |-> NULL]

\* a request reaches one of the controller's handlers
NewRequest ==
    /\ pc = "idle"
    /\ \E op \in Ops, t \in NodeTypes, id \in Ids, o \in Ids \cup {NULL},
          c \in {NULL, 3, 4} :
         /\ (op \in {"show", "edit", "update", "remove"} => o = NULL)
         /\ (op \in {"add", "create"} => id = 1 /\ o \in {NULL, 1, MaxId})
         /\ (op = "move" => o # NULL)
         /\ (op # "update" => c = NULL)
         /\ req' = [op |-> op, nodeType |-> t, id |-> id, owner_id |-> o,
                    submitted |-> c]
         /\ pre' = Snapshot(id, o)
    /\ pc' = "connect"
    /\ UNCHANGED <<store, client, log, responses, err, unhandled, locals, cb, created>>
    /\ UNCHANGED evars
    /\ UNCHANGED svars

\* the request's state is dropped; only the store outlives a request
EndRequest ==
    /\ RequestOver
    /\ req' = NoRequest
    /\ pc' = "idle"
    /\ client' = "none"
    /\ log' = <<>>
    /\ responses' = <<>>
    /\ err' = ""
    /\ unhandled' = FALSE
    /\ itemData' = NoItem
    /\ ownerData' = NULL
    /\ comps' = {}
    /\ isMoveable' = FALSE
    /\ cb' = "none"
    /\ created' = NULL
    /\ pre' = NoSnapshot
    /\ UNCHANGED store
    /\ UNCHANGED evars
    /\ UNCHANGED svars

\* const client = await pool.connect();   (outside the try block)
\* A failed checkout either rejects (pg) or yields undefined (the note in show).
Connect ==
    /\ pc = "connect"
    /\ \E r \in {"held", "undefined", "reject"} :
         IF r = "reject"
         THEN /\ unhandled' = TRUE
              /\ pc' = "done"
              /\ UNCHANGED client
         ELSE /\ client' = r
              /\ pc' = FirstStep(req.op)
              /\ UNCHANGED unhandled
    /\ UNCHANGED <<store, req, log, responses, err, locals, cb, created, pre>>
    /\ UNCHANGED evars
    /\ UNCHANGED svars

\* catch (err) { console.error(err); return next(err); }
Catch ==
    /\ pc = "catch"
    /\ responses' = Append(responses, err)
    /\ pc' = "finally"
    /\ UNCHANGED <<store, req, client, log, err, unhandled, locals, cb, created, pre>>
    /\ UNCHANGED evars
    /\ UNCHANGED svars

\* finally { await client.release(true); }
Finally ==
    /\ pc = "finally"
    /\ IF client = "held"
       THEN /\ log' = Append(log, "release")
            /\ client' = "released"
            /\ UNCHANGED unhandled
       ELSE /\ log' = Append(log, "release(undefined)")
            /\ unhandled' = TRUE
            /\ UNCHANGED client
    /\ pc' = "done"
    /\ UNCHANGED <<store, req, responses, err, locals, cb, created, pre>>
    /\ UNCHANGED evars
    /\ UNCHANGED svars

\* a step of a handler: issue the calls cs; if one throws go to the catch
\* block, otherwise respond with `answer` (unless "") and continue at `goto`
Throws(cs, t, handler) ==
    /\ t # 0
    /\ log' = log \o Issued(cs, t)
    /\ err' = "dbError"
    /\ pc' = handler
    /\ UNCHANGED <<responses, unhandled>>

Returns(cs, answer, goto) ==
    /\ log' = log \o cs
    /\ responses' = IF answer = "" THEN responses ELSE Append(responses, answer)
    /\ pc' = goto
    /\ UNCHANGED <<err, unhandled>>

\* ------------------------------------------------------------------ move
\* if (!ownerData || !itemData || nodeType !== type) -> notFound
MoveNotFound(item, owner, nodeType) ==
    owner = NULL \/ ~item.found \/ nodeType # item.type

\* mutant: the relation guard is evaluated before the comparison guard
MoveDecision_RelatableFirst(cmps, moveable, status) ==
    IF ~moveable THEN "invalidMove"
    ELSE IF cmps # {} THEN "restrictedByComparisons"
    ELSE IF status # "unsorted" /\ status # "sorted" /\ status # "missing"
         THEN "invalidMove"
    ELSE "ok"

\* mutant: the status guard is missing
MoveDecision_NoStatusCheck(cmps, moveable, status) ==
    IF cmps # {} THEN "restrictedByComparisons"
    ELSE IF ~moveable THEN "invalidMove"
    ELSE "ok"

\* the three guards that follow the validation reads of move
MoveDecision(cmps, moveable, status) ==
    IF cmps # {} THEN "restrictedByComparisons"
    ELSE IF ~moveable THEN "invalidMove"
    ELSE IF status # "unsorted" /\ status # "sorted" /\ status # "missing"
         THEN "invalidMove"
    ELSE "ok"

MoveLookupCalls == <<"nserve.get", "nserve.select">>

MoveLookup ==
    /\ pc = "move_lookup"
    /\ \E t \in ThrowAt(MoveLookupCalls) :
         \/ /\ Throws(MoveLookupCalls, t, "catch")
            /\ UNCHANGED <<itemData, ownerData>>
         \/ /\ t = 0
            /\ itemData' = nserve_get(req.id, req.nodeType)
            /\ ownerData' = nserve_select(req.owner_id)
            /\ IF MoveNotFound(itemData', ownerData', req.nodeType)
               THEN Returns(MoveLookupCalls, "notFound", "finally")
               ELSE Returns(MoveLookupCalls, "", "move_validate")
    /\ UNCHANGED <<store, req, client, comps, isMoveable, cb, created, pre>>
    /\ UNCHANGED evars
    /\ UNCHANGED svars

MoveValidateCalls == <<"getComparisonsMetadata", "isRelatable">>

MoveValidate ==
    /\ pc = "move_validate"
    /\ \E t \in ThrowAt(MoveValidateCalls) :
         \/ /\ Throws(MoveValidateCalls, t, "catch")
            /\ UNCHANGED <<comps, isMoveable>>
         \/ /\ t = 0
            /\ comps' = getComparisonsMetadata(itemData.node)
            /\ isMoveable' = isRelatable(req.id, req.owner_id)
            /\ LET d == MoveDecision(comps', isMoveable', itemData.status) IN
               IF d # "ok"
               THEN Returns(MoveValidateCalls, d, "finally")
               ELSE Returns(MoveValidateCalls, "", "move_apply")
    /\ UNCHANGED <<store, req, client, itemData, ownerData, cb, created, pre>>
    /\ UNCHANGED evars
    /\ UNCHANGED svars

\* const result = await mserve.move(item, ownerData, client);
MoveApply ==
    /\ pc = "move_apply"
    /\ \/ /\ Throws(<<"mserve.move">>, 1, "catch")
          /\ UNCHANGED nodes
       \/ /\ Returns(<<"mserve.move">>, "invalidRequest", "finally")
          /\ UNCHANGED nodes
       \/ /\ Returns(<<"mserve.move">>, "200", "finally")
          /\ nodes' = [nodes EXCEPT ![itemData.node].owner_id = ownerData]
    /\ UNCHANGED <<comparisons, req, client, locals, cb, created, pre>>
    /\ UNCHANGED evars
    /\ UNCHANGED svars

\* ---------------------------------------------------------------- remove
\* mutant: the dependents guard is missing
RemoveDecision_NoDependentsCheck(item, nodeType) ==
    IF ~item.found \/ nodeType # item.type THEN "notFound" ELSE "ok"

\* notFound on a missing / mistyped item, 23503 when the item has dependents
RemoveDecision(item, nodeType) ==
    IF ~item.found \/ nodeType # item.type THEN "notFound"
    ELSE IF item.hasDependents THEN "23503"
    ELSE "ok"

RemoveLookup ==
    /\ pc = "remove_lookup"
    /\ \E t \in ThrowAt(<<"nserve.get">>) :
         \/ /\ Throws(<<"nserve.get">>, t, "catch")
            /\ UNCHANGED itemData
         \/ /\ t = 0
            /\ itemData' = nserve_get(req.id, req.nodeType)
            /\ LET d == RemoveDecision(itemData', req.nodeType) IN
               IF d # "ok"
               THEN Returns(<<"nserve.get">>, d, "finally")
               ELSE Returns(<<"nserve.get">>, "", "remove_comparisons")
    /\ UNCHANGED <<store, req, client, ownerData, comps, isMoveable, cb, created, pre>>
    /\ UNCHANGED evars
    /\ UNCHANGED svars

\* mutant: the comparisons of the node are never deleted
RemoveComparisonsCalls_NoDelete(cmps) == <<"getComparisonsMetadata">>

\* mutant: the comparisons are deleted before they are looked up
RemoveComparisonsCalls_DeleteFirst(cmps) ==
    IF cmps # {} THEN <<"deleteComparisons", "getComparisonsMetadata">>
    ELSE <<"getComparisonsMetadata">>

\* mutant: deleteComparisons is called whether or not comparisons exist
RemoveComparisonsCalls_AlwaysDelete(cmps) ==
    <<"getComparisonsMetadata", "deleteComparisons">>

\* delete any capture comparisons if they exist
RemoveComparisonsCalls(cmps) ==
    IF cmps # {} THEN <<"getComparisonsMetadata", "deleteComparisons">>
    ELSE <<"getComparisonsMetadata">>

RemoveComparisons ==
    /\ pc = "remove_comparisons"
    /\ LET cmps == getComparisonsMetadata(itemData.node)
           cs == RemoveComparisonsCalls(cmps) IN
       \E t \in ThrowAt(cs) :
         \/ /\ Throws(cs, t, "catch")
            /\ comps' = IF t = 1 THEN comps ELSE cmps
            /\ UNCHANGED comparisons
         \/ /\ t = 0
            /\ comps' = cmps
            /\ comparisons' = IF "deleteComparisons" \in {cs[k] : k \in 1 .. Len(cs)}
                              THEN comparisons \ cmps ELSE comparisons
            /\ Returns(cs, "", "remove_owner")
    /\ UNCHANGED <<nodes, req, client, itemData, ownerData, isMoveable, cb, created, pre>>
    /\ UNCHANGED evars
    /\ UNCHANGED svars

\* get path of owner node in hierarchy (for the response)
RemoveOwnerCalls == <<"nserve.select", "nserve.getPath">>

RemoveOwner ==
    /\ pc = "remove_owner"
    /\ \E t \in ThrowAt(RemoveOwnerCalls) :
         \/ /\ Throws(RemoveOwnerCalls, t, "catch")
            /\ UNCHANGED ownerData
         \/ /\ t = 0
            /\ ownerData' = nserve_select(nodes[itemData.node].owner_id)
            /\ Returns(RemoveOwnerCalls, "", "remove_apply")
    /\ UNCHANGED <<store, req, client, itemData, comps, isMoveable, cb, created, pre>>
    /\ UNCHANGED evars
    /\ UNCHANGED svars

\* await mserve.remove(item, client);
RemoveApply ==
    /\ pc = "remove_apply"
    /\ \/ /\ Throws(<<"mserve.remove">>, 1, "catch")
          /\ UNCHANGED nodes
       \/ /\ Returns(<<"mserve.remove">>, "200", "finally")
          /\ nodes' = [nodes EXCEPT ![itemData.node] = NoRow]
    /\ UNCHANGED <<comparisons, req, client, locals, cb, created, pre>>
    /\ UNCHANGED evars
    /\ UNCHANGED svars

\* ----------------------------------------------------------- show / edit
\* if (!itemData || nodeType !== type) -> notFound
ItemNotFound(item, nodeType) == ~item.found \/ nodeType # item.type

ShowGet ==
    /\ pc = "show_get"
    /\ \E t \in ThrowAt(<<"nserve.get">>) :
         \/ /\ Throws(<<"nserve.get">>, t, "catch")
            /\ UNCHANGED itemData
         \/ /\ t = 0
            /\ itemData' = nserve_get(req.id, req.nodeType)
            /\ IF ItemNotFound(itemData', req.nodeType)
               THEN Returns(<<"nserve.get">>, "notFound", "finally")
               ELSE Returns(<<"nserve.get">>, "", "show_respond")
    /\ UNCHANGED <<store, req, client, ownerData, comps, isMoveable, cb, created, pre>>
    /\ UNCHANGED evars
    /\ UNCHANGED svars

ShowRespondCalls == <<"nserve.getPath", "metaserve.getAttachedByNode">>

ShowRespond ==
    /\ pc = "show_respond"
    /\ \E t \in ThrowAt(ShowRespondCalls) :
         \/ Throws(ShowRespondCalls, t, "catch")
         \/ t = 0 /\ Returns(ShowRespondCalls, "200", "finally")
    /\ UNCHANGED <<store, req, client, locals, cb, created, pre>>
    /\ UNCHANGED evars
    /\ UNCHANGED svars

EditGet ==
    /\ pc = "edit_get"
    /\ \E t \in ThrowAt(<<"nserve.get">>) :
         \/ /\ Throws(<<"nserve.get">>, t, "catch")
            /\ UNCHANGED itemData
         \/ /\ t = 0
            /\ itemData' = nserve_get(req.id, req.nodeType)
            /\ IF ItemNotFound(itemData', req.nodeType)
               THEN Returns(<<"nserve.get">>, "notFound", "finally")
               ELSE Returns(<<"nserve.get">>, "", "edit_respond")
    /\ UNCHANGED <<store, req, client, ownerData, comps, isMoveable, cb, created, pre>>
    /\ UNCHANGED evars
    /\ UNCHANGED svars

EditRespondCalls == <<"nserve.select", "nserve.getPath">>

EditRespond ==
    /\ pc = "edit_respond"
    /\ \E t \in ThrowAt(EditRespondCalls) :
         \/ Throws(EditRespondCalls, t, "catch")
         \/ t = 0 /\ Returns(EditRespondCalls, "200", "finally")
    /\ UNCHANGED <<store, req, client, locals, cb, created, pre>>
    /\ UNCHANGED evars
    /\ UNCHANGED svars

\* -------------------------------------------------------------------- add
AddRespondCalls == <<"nserve.select", "nserve.getPath">>

AddRespond ==
    /\ pc = "add_respond"
    /\ \E t \in ThrowAt(AddRespondCalls) :
         \/ Throws(AddRespondCalls, t, "catch")
         \/ t = 0 /\ Returns(AddRespondCalls, "200", "finally")
    /\ UNCHANGED <<store, req, client, locals, cb, created, pre>>
    /\ UNCHANGED evars
    /\ UNCHANGED svars

\* ----------------------------------------------------------------- update
\* mutant: the owner guard is missing
CreateInvalid_Never(owner, nodeType) == FALSE

\* mutant: the guard on a missing item is missing
UpdateNotFound_Never(item) == FALSE

\* if (!itemData) -> notFound
UpdateNotFound(item) == ~item.found

UpdateGet ==
    /\ pc = "update_get"
    /\ \E t \in ThrowAt(<<"nserve.get">>) :
         \/ /\ Throws(<<"nserve.get">>, t, "catch")
            /\ UNCHANGED itemData
         \/ /\ t = 0
            /\ itemData' = nserve_get(req.id, req.nodeType)
            /\ IF UpdateNotFound(itemData')
               THEN Returns(<<"nserve.get">>, "notFound", "finally")
               ELSE Returns(<<"nserve.get">>, "", "update_apply")
    /\ UNCHANGED <<store, req, client, ownerData, comps, isMoveable, cb, created, pre>>
    /\ UNCHANGED evars
    /\ UNCHANGED svars

\* importer.receive, mserve.update and, for a capture node, updateComparisons
UpdateApplyCalls(type) ==
    IF type = "historic_captures" \/ type = "modern_captures"
    THEN <<"importer.receive", "mserve.update", "updateComparisons">>
    ELSE <<"importer.receive", "mserve.update">>

\* importer.receive(req, callback) only registers listeners and has no return
\* statement: whatever capture the request submits as counterpart, update gets
\* undefined from  await importer.receive(req, owner_id, owner_type)
ImporterReceive(submitted) == [defined |-> FALSE, counterpart |-> NULL]

Opposite(type) ==
    IF type = "historic_captures" THEN "modern_captures" ELSE "historic_captures"

\* const {data = {}} = importedData || {};
\* const {historic_captures = {}, modern_captures = {}} = data || {};
\* the submitted captures filed under the kind opposite to the node's
ComparisonCaptures(imported, type) ==
    IF imported.defined /\ imported.counterpart # NULL
       /\ nodes[imported.counterpart].type = Opposite(type)
    THEN {imported.counterpart}
    ELSE {}

\* updateComparisons(node, comparisonCaptures, client): replaces the set of node
updateComparisons(node, type, list) ==
    (comparisons \ getComparisonsMetadata(node))
    \cup {IF type = "historic_captures" THEN <<node, c>> ELSE <<c, node>> : c \in list}

UpdateApply ==
    /\ pc = "update_apply"
    /\ LET cs == UpdateApplyCalls(itemData.type) IN
       \E t \in ThrowAt(cs) :
         \/ /\ Throws(cs, t, "catch")
            /\ cb' = IF t = 1 THEN cb ELSE "pending"
            /\ UNCHANGED comparisons
         \/ /\ t = 0
            /\ cb' = "pending"
            /\ comparisons' =
                 IF Len(cs) = 3
                 THEN updateComparisons(itemData.node, itemData.type,
                         ComparisonCaptures(ImporterReceive(req.submitted),
                                            itemData.type))
                 ELSE comparisons
            /\ Returns(cs, "", "update_respond")
    /\ UNCHANGED <<nodes, req, client, locals, created, pre>>
    /\ UNCHANGED evars
    /\ UNCHANGED svars

\* bb 'close' / 'error', req 'aborted' -> callback(...): update passed
\* owner_id where receive expects the callback, so the listener throws
\* "callback is not a function"; the exception is uncaught and the process
\* exits (server.js), wherever the handler stands
UpdateCallback ==
    /\ req.op = "update"
    /\ cb = "pending"
    /\ cb' = "failed"
    /\ unhandled' = TRUE
    /\ pc' = "done"
    /\ UNCHANGED <<store, req, client, log, responses, err, locals, created, pre>>
    /\ UNCHANGED evars
    /\ UNCHANGED svars

UpdateRespondCalls == <<"nserve.get", "nserve.getPath">>

UpdateRespond ==
    /\ pc = "update_respond"
    /\ \E t \in ThrowAt(UpdateRespondCalls) :
         \/ Throws(UpdateRespondCalls, t, "catch")
         \/ t = 0 /\ Returns(UpdateRespondCalls, "200", "finally")
    /\ UNCHANGED <<store, req, client, locals, cb, created, pre>>
    /\ UNCHANGED evars
    /\ UNCHANGED svars

\* ----------------------------------------------------------------- create
\* await client.query('BEGIN');
CreateBegin ==
    /\ pc = "create_begin"
    /\ \E t \in ThrowAt(<<"BEGIN">>) :
         \/ Throws(<<"BEGIN">>, t, "create_catch")
         \/ t = 0 /\ Returns(<<"BEGIN">>, "", "create_owner")
    /\ UNCHANGED <<store, req, client, locals, cb, created, pre>>
    /\ UNCHANGED evars
    /\ UNCHANGED svars

\* if (!owner && !model.isRoot) -> invalidRequest
CreateInvalid(owner, nodeType) == owner = NULL /\ nodeType \notin RootTypes

CreateOwner ==
    /\ pc = "create_owner"
    /\ \E t \in ThrowAt(<<"nserve.select">>) :
         \/ /\ Throws(<<"nserve.select">>, t, "create_catch")
            /\ UNCHANGED ownerData
         \/ /\ t = 0
            /\ ownerData' = nserve_select(req.owner_id)
            /\ IF CreateInvalid(ownerData', req.nodeType)
               THEN Returns(<<"nserve.select">>, "invalidRequest", "finally")
               ELSE Returns(<<"nserve.select">>, "", "create_receive")
    /\ UNCHANGED <<store, req, client, itemData, comps, isMoveable, cb, created, pre>>
    /\ UNCHANGED evars
    /\ UNCHANGED svars

\* importer.receive(req, callback); return await client.query('COMMIT');
\* receive only registers the busboy listeners (or throws in the busboy
\* constructor); COMMIT is issued in the same synchronous run, before any
\* stream event can invoke the callback.
CreateReceive ==
    /\ pc = "create_receive"
    /\ \/ /\ Throws(<<"importer.receive">>, 1, "create_catch")
          /\ UNCHANGED cb
       \/ /\ Returns(<<"importer.receive", "COMMIT">>, "", "create_commit")
          /\ cb' = "pending"
    /\ UNCHANGED <<store, req, client, locals, created, pre>>
    /\ UNCHANGED evars
    /\ UNCHANGED svars

\* the awaited COMMIT settles
CreateCommit ==
    /\ pc = "create_commit"
    /\ \/ /\ err' = "dbError"
          /\ pc' = "create_catch"
       \/ /\ pc' = "finally"
          /\ UNCHANGED err
    /\ UNCHANGED <<store, req, client, log, responses, unhandled, locals, cb, created, pre>>
    /\ UNCHANGED evars
    /\ UNCHANGED svars

\* catch (err) { await client.query('ROLLBACK'); return next(err); }
CreateCatch ==
    /\ pc = "create_catch"
    /\ \/ /\ client = "held"
          /\ log' = Append(log, "ROLLBACK")
          /\ responses' = Append(responses, err)
          /\ UNCHANGED unhandled
       \/ /\ log' = IF client = "held" THEN Append(log, "ROLLBACK") ELSE log
          /\ unhandled' = TRUE
          /\ UNCHANGED responses
    /\ pc' = "finally"
    /\ UNCHANGED <<store, req, client, err, locals, cb, created, pre>>
    /\ UNCHANGED evars
    /\ UNCHANGED svars

\* ------------------------------------------------- importer callback (create)
\* abort(err) -> callback(err, null) -> next(err)
CallbackAbort ==
    /\ req.op = "create"
    /\ cb = "pending"
    /\ responses' = Append(responses, "importError")
    /\ cb' = "done"
    /\ UNCHANGED <<store, req, pc, client, log, err, unhandled, locals, created, pre>>
    /\ UNCHANGED evars
    /\ UNCHANGED svars

\* ids are handed out by the store; a slot after InitialIds that holds no row
\* stands for a fresh id
FreeIds == {i \in Ids \ InitialIds : nodes[i].type = ""}

\* bb 'close' -> callback(null, result): fileOwnerData = await mserve.insert(fileOwner)
CallbackInsert ==
    /\ req.op = "create"
    /\ cb = "pending"
    /\ log' = Append(log, "mserve.insert")
    /\ \/ /\ cb' = "failed"
          /\ unhandled' = TRUE
          /\ UNCHANGED <<nodes, created>>
       \/ /\ FreeIds # {}
          /\ LET n == CHOOSE i \in FreeIds : \A j \in FreeIds : i <= j IN
             /\ nodes' = [nodes EXCEPT ![n] =
                   [type |-> req.nodeType, owner_id |-> ownerData,
                    status |-> IF req.nodeType \in CaptureTypes THEN "unsorted" ELSE "",
                    files |-> FALSE]]
             /\ created' = n
          /\ \E files \in BOOLEAN : cb' = IF files THEN "files" ELSE "respond"
          /\ UNCHANGED unhandled
    /\ UNCHANGED <<comparisons, req, pc, client, responses, err, locals, pre>>
    /\ UNCHANGED evars
    /\ UNCHANGED svars

\* if (files.length > 0) fileData = await fserve.insert(files, fileOwner, client);
\* a released client (release(true) closes it) is not queryable any more;
\* the file rows it inserts are not part of the node table
CallbackFiles ==
    /\ cb = "files"
    /\ log' = Append(log, "fserve.insert")
    /\ \/ /\ cb' = "failed"
          /\ unhandled' = TRUE
       \/ /\ client = "held"
          /\ cb' = "respond"
          /\ UNCHANGED unhandled
    /\ UNCHANGED <<store, req, pc, client, responses, err, locals, created, pre>>
    /\ UNCHANGED evars
    /\ UNCHANGED svars

\* res.status(200).json(...)
CallbackRespond ==
    /\ cb = "respond"
    /\ responses' = Append(responses, "200")
    /\ cb' = "done"
    /\ UNCHANGED <<store, req, pc, client, log, err, unhandled, locals, created, pre>>
    /\ UNCHANGED evars
    /\ UNCHANGED svars

Next ==
    \/ NewRequest
    \/ EndRequest
    \/ Connect
    \/ Catch
    \/ Finally
    \/ ShowGet
    \/ ShowRespond
    \/ AddRespond
    \/ CreateBegin
    \/ CreateOwner
    \/ CreateReceive
    \/ CreateCommit
    \/ CreateCatch
    \/ CallbackAbort
    \/ CallbackInsert
    \/ CallbackFiles
    \/ CallbackRespond
    \/ EditGet
    \/ EditRespond
    \/ UpdateGet
    \/ UpdateApply
    \/ UpdateRespond
    \/ UpdateCallback
    \/ MoveLookup
    \/ MoveValidate
    \/ MoveApply
    \/ RemoveLookup
    \/ RemoveComparisons
    \/ RemoveOwner
    \/ RemoveApply

Spec == Init /\ [][Next]_vars

\* ------------------------------------------------------- entity operations
\* new Model(attributeValues): this.attributes = schema.attributes;
\* this.setData(attributeValues)
New ==
    /\ \E i \in Insts, given \in BOOLEAN, x \in Records :
         /\ (~given => x = NoRecord)
         /\ (i = "other" => ~given)
         /\ instances' = [instances EXCEPT ![i] = "shared"]
         /\ attributes' = setData(attributes, given, x)
         /\ last' = [Call("new", i) EXCEPT !.given = given, !.x = x,
                        !.altered = Altered(attributes, attributes')]
    /\ UNCHANGED vars
    /\ UNCHANGED svars

\* item.setData(data)
SetData ==
    /\ \E i \in {"item"}, given \in BOOLEAN, x \in Records :
         /\ instances[i] # "none"
         /\ (~given => x = NoRecord)
         /\ Store(i, setData(Attrs(i), given, x),
                  [Call("setData", i) EXCEPT !.given = given, !.x = x])
    /\ UNCHANGED <<instances, vars>>
    /\ UNCHANGED svars

\* mutant: setValue stores the value as it is given
setValue_Unsanitized(attrs, key, value) ==
    IF key \in DOMAIN attrs
    THEN [attrs EXCEPT ![key].value = value]
    ELSE attrs

\* setValue(key, value) on the attribute object attrs
setValue(attrs, key, value) ==
    IF key \in DOMAIN attrs
    THEN [attrs EXCEPT ![key].value = sanitize(value, attrs[key].type)]
    ELSE attrs

\* item.setValue(key, value)
SetValue ==
    /\ \E i \in {"item"}, key \in Names, v \in InputValues :
         /\ instances[i] # "none"
         /\ Store(i, setValue(Attrs(i), key, v),
                  [Call("setValue", i) EXCEPT !.name = key, !.value = v])
    /\ UNCHANGED <<instances, vars>>
    /\ UNCHANGED svars

\* item.id = id: this.attributes[schema.idKey || 'unknown'].value = id;
\* a TypeError when this.attributes holds no such entry
SetId ==
    /\ \E i \in {"item"}, v \in InputValues :
         /\ instances[i] # "none"
         /\ LET call == [Call("id", i) EXCEPT !.name = idKey, !.value = v] IN
            IF HasOwn(i, idKey)
            THEN Store(i, [Attrs(i) EXCEPT ![idKey].value = v], call)
            ELSE Store(i, Attrs(i), [call EXCEPT !.threw = TRUE])
    /\ UNCHANGED <<instances, vars>>
    /\ UNCHANGED svars

\* item.owner = id
SetOwner ==
    /\ \E i \in {"item"}, v \in InputValues :
         /\ instances[i] # "none"
         /\ LET call == [Call("owner", i) EXCEPT !.name = "owner_id", !.value = v] IN
            IF v.t \in {"number", "string"} /\ HasOwn(i, "owner_id")
            THEN Store(i, [Attrs(i) EXCEPT !["owner_id"].value = sanitize(v, "")], call)
            ELSE Store(i, Attrs(i), call)
    /\ UNCHANGED <<instances, vars>>
    /\ UNCHANGED svars

\* item.addAttribute(name, type, value), on an instance that was not cleared
AddAttribute ==
    /\ \E i \in {"item"}, type \in {"integer"}, v \in InputValues :
         /\ instances[i] = "shared"
         /\ Store(i, [k \in DOMAIN Attrs(i) \cup {ExtraKey} |->
                        IF k = ExtraKey THEN [value |-> v, type |-> type]
                        ELSE Attrs(i)[k]],
                  [Call("addAttribute", i) EXCEPT !.name = ExtraKey,
                                                  !.type = type, !.value = v])
    /\ UNCHANGED <<instances, vars>>
    /\ UNCHANGED svars

\* item.clear(): every value of this.attributes is set to null and
\* this.attributes becomes the array of what the arrow function returned;
\* on that array the first key is an index that holds undefined: TypeError
Clear ==
    /\ \E i \in {"item"} :
         /\ instances[i] # "none"
         /\ IF instances[i] = "shared"
            THEN /\ Store(i, [k \in DOMAIN attributes |->
                                [attributes[k] EXCEPT !.value = Null]],
                          Call("clear", i))
                 /\ instances' = [instances EXCEPT ![i] = "array"]
            ELSE /\ Store(i, Attrs(i), [Call("clear", i) EXCEPT !.threw = TRUE])
                 /\ UNCHANGED instances
    /\ UNCHANGED vars
    /\ UNCHANGED svars

\* update: importedData = await importer.receive(req, owner_id, owner_type);
\* item = new Model(metadata); item.setData(importedData?.data);
\* await mserve.update(item)
UpdateMerge ==
    /\ \E i \in {"item"}, d \in Records :
         LET item     == setData(attributes, TRUE, StoredMetadata)
             imported == ImporterReceive(d)
             merged   == setData(item, imported.defined, d)
         IN  /\ instances' = [instances EXCEPT ![i] = "shared"]
             /\ attributes' = merged
             /\ last' = [Call("update", i) EXCEPT !.given = TRUE, !.x = d,
                            !.handed = [k \in DOMAIN merged |-> merged[k].value],
                            !.altered = Altered(attributes, merged)]
    /\ UNCHANGED vars
    /\ UNCHANGED svars

\* ------------------------------------------------------------- createNode
LowerCase == {"a", "b", "c", "d", "e", "f", "g", "h", "i", "j", "k", "l", "m",
              "n", "o", "p", "q", "r", "s", "t", "u", "v", "w", "x", "y", "z"}

UpperCase == {"A", "B", "C", "D", "E", "F", "G", "H", "I", "J", "K", "L", "M",
              "N", "O", "P", "Q", "R", "S", "T", "U", "V", "W", "X", "Y", "Z"}

\* the characters that replace(/[^a-z0-9_-]/gi, '') keeps
SlugChars == LowerCase \cup UpperCase \cup {Digits[d] : d \in 1 .. 10} \cup {"_", "-"}

\* label.replace(' ', '_'): a string pattern replaces the first blank only
RECURSIVE ReplaceFirstBlank(_)
ReplaceFirstBlank(chars) ==
    IF chars = <<>> THEN <<>>
    ELSE IF Head(chars) = " " THEN <<"_">> \o Tail(chars)
    ELSE <<Head(chars)>> \o ReplaceFirstBlank(Tail(chars))

RECURSIVE KeepSlugChars(_)
KeepSlugChars(chars) ==
    IF chars = <<>> THEN <<>>
    ELSE IF Head(chars) \in SlugChars
         THEN <<Head(chars)>> \o KeepSlugChars(Tail(chars))
         ELSE KeepSlugChars(Tail(chars))

\* item.label.replace(' ', '_').replace(/[^a-z0-9_-]/gi, '')
Slug(label) == KeepSlugChars(ReplaceFirstBlank(label))

\* path.join(dir, name) for a dir without a trailing separator
PathJoin(dir, name) ==
    IF name = <<>> THEN dir
    ELSE IF dir = <<>> THEN name
    ELSE dir \o <<"/">> \o name

\* the labels genLabel gives the item: 'A b c', 'N.1'
Labels == {<<"A", " ", "b", " ", "c">>, <<"N", ".", "1">>}

\* item.name, the entity type of the constructor
EntityName == <<"s", "t", "a", "t", "i", "o", "n", "s">>

\* item.fsRoot of a type without an entry in schema.fsRoot
fsRoot == <<"U", "n", "k", "n", "o", "w", "n">>

\* type and fs_path of the owner node when nselect finds it
OwnerType == <<"s", "u", "r", "v", "e", "y", "s">>

OwnerFsPath == <<"/", "s", "1">>

\* the name of an attribute type as a string
TypeChars(type) ==
    IF type = "integer" THEN <<"i", "n", "t", "e", "g", "e", "r">>
    ELSE <<"t", "e", "x", "t">>

\* schema.attributes of the constructor create('nodes') returns
NodeAttributes ==
    [k \in {"id", "type", "owner_id", "owner_type", "fs_path"} |->
        [value |-> Null,
         type |-> CASE k \in {"id", "owner_id"} -> "integer"
                    [] k = "fs_path" -> "text"
                    [] OTHER -> "varying character"]]

\* item.id: schema.idKey && this.attributes[schema.idKey].value || ''
ItemId(attrs) ==
    IF Truthy(attrs[idKey].value) THEN attrs[idKey].value ELSE Str(<<>>)

\* let ownerAttrs = await nselect(value, client) || owner;
\* const { id=null, type=null, fs_path=item.fsRoot } = ownerAttrs || {};
\* without a node, ownerAttrs is the owner_id attribute {value, key, label, type}
OwnerAttrs(attrs, found) ==
    IF found
    THEN [id |-> Num(parseInt(attrs["owner_id"].value).n), type |-> Str(OwnerType),
          fs_path |-> OwnerFsPath]
    ELSE [id |-> Null, type |-> Str(TypeChars(attrs["owner_id"].type)),
          fs_path |-> fsRoot]

\* return new Node({id, type, owner_id, owner_type, fs_path}), as getData()
createNode(attrs, label, found) ==
    LET owner == OwnerAttrs(attrs, found)
        data  == [k \in DOMAIN NodeAttributes |->
                    CASE k = "id"         -> ItemId(attrs)
                      [] k = "type"       -> Str(EntityName)
                      [] k = "owner_id"   -> owner.id
                      [] k = "owner_type" -> owner.type
                      [] OTHER            -> Str(PathJoin(owner.fs_path, Slug(label)))]
        node  == setData(NodeAttributes, TRUE, data)
    IN  [k \in DOMAIN node |-> node[k].value]

\* createNode(item): null for an item without a node attribute (after
\* clear()); nselect finds the owner node, finds none, or throws
CreateNode ==
    /\ \E i \in {"item"}, outcome \in {"found", "none", "throws"}, label \in Labels :
         /\ instances[i] # "none"
         /\ (outcome = "found" => ~parseInt(getValue(i, "owner_id")).nan)
         /\ (~HasOwn(i, idKey) => outcome = "none")
         /\ last' = IF ~HasOwn(i, idKey)
                    THEN [Call("createNode", i) EXCEPT !.label = label]
                    ELSE IF outcome = "throws"
                    THEN [Call("createNode", i) EXCEPT !.label = label, !.threw = TRUE]
                    ELSE [Call("createNode", i) EXCEPT !.label = label, !.given = TRUE,
                             !.found = (outcome = "found"),
                             !.handed = createNode(Attrs(i), label, outcome = "found")]
    /\ UNCHANGED <<attributes, instances, vars>>
    /\ UNCHANGED svars

NextEntity ==
    \/ New
    \/ SetData
    \/ SetValue
    \/ SetId
    \/ SetOwner
    \/ AddAttribute
    \/ Clear
    \/ UpdateMerge
    \/ CreateNode

\* the entity operations, on one initial store
InitEntity == Init /\ nodes[3].status = "sorted"

SpecEntity == InitEntity /\ [][NextEntity]_evars

\* ------------------------------------------------------ moveFiles actions
\* what is not a variable of moveFiles
OutsideMoveFiles == <<vars, evars, lvars, ivars, dvars, zvars>>

\* the file's function up to update(): return null for a node or file
\* without fs_path; mkdir / rename may throw; otherwise update() starts
MovePrepare ==
    /\ \E f \in Files, r \in {"begin", "done", "failed"} :
         /\ mpc[f] = "start"
         /\ mpc' = [mpc EXCEPT ![f] = r]
    /\ UNCHANGED <<txn, pending, committed, OutsideMoveFiles>>

\* await client.query('BEGIN'): opens a transaction on the client unless one
\* is open (then a warning, no effect); an error in an aborted transaction
FileBegin ==
    /\ \E f \in Files :
         /\ mpc[f] = "begin"
         /\ IF txn = "aborted"
            THEN /\ mpc' = [mpc EXCEPT ![f] = "rollback"]
                 /\ UNCHANGED txn
            ELSE /\ mpc' = [mpc EXCEPT ![f] = "touch"]
                 /\ txn' = "open"
    /\ UNCHANGED <<pending, committed, OutsideMoveFiles>>

NextStatement(stmt) ==
    CASE stmt = "touch" -> "file"
      [] stmt = "file"  -> "metadata"
      [] OTHER          -> "commit"

\* await client.query(sql, data) for the touch, file and metadata statement:
\* applied inside the open transaction, or at once when none is open; a
\* failing statement aborts the open transaction, and every statement fails
\* in an aborted one
FileStatement ==
    /\ \E f \in Files, ok \in BOOLEAN :
         /\ mpc[f] \in {FileStatements[k] : k \in 1 .. Len(FileStatements)}
         /\ (txn = "aborted" => ~ok)
         /\ IF ok
            THEN /\ mpc' = [mpc EXCEPT ![f] = NextStatement(mpc[f])]
                 /\ pending' = IF txn = "open" THEN pending \cup {<<f, mpc[f]>>}
                               ELSE pending
                 /\ committed' = IF txn = "none" THEN committed \cup {<<f, mpc[f]>>}
                                 ELSE committed
                 /\ UNCHANGED txn
            ELSE /\ mpc' = [mpc EXCEPT ![f] = "rollback"]
                 /\ txn' = IF txn = "open" THEN "aborted" ELSE txn
                 /\ UNCHANGED <<pending, committed>>
    /\ UNCHANGED OutsideMoveFiles

\* await client.query('COMMIT'): makes durable whatever the client's open
\* transaction holds; ends an aborted transaction by rolling it back
FileCommit ==
    /\ \E f \in Files :
         /\ mpc[f] = "commit"
         /\ mpc' = [mpc EXCEPT ![f] = "done"]
    /\ committed' = IF txn = "open" THEN committed \cup pending ELSE committed
    /\ pending' = {}
    /\ txn' = "none"
    /\ UNCHANGED OutsideMoveFiles

\* catch (err) { await client.query('ROLLBACK'); throw err; }
FileRollback ==
    /\ \E f \in Files :
         /\ mpc[f] = "rollback"
         /\ mpc' = [mpc EXCEPT ![f] = "failed"]
    /\ pending' = {}
    /\ txn' = "none"
    /\ UNCHANGED <<committed, OutsideMoveFiles>>

NextMoveFiles ==
    \/ MovePrepare
    \/ FileBegin
    \/ FileStatement
    \/ FileCommit
    \/ FileRollback

\* moveFiles, on one initial store
SpecMoveFiles == InitEntity /\ [][NextMoveFiles]_mvars

\* ------------------------------------------------------------ logs actions
\* what is not a variable of logs
OutsideLogs == <<vars, evars, mvars, ivars, dvars, zvars>>

\* const logFiles = files.filter(file => path.extname(file) === '.log')
LogFiles(dir) == {e \in Entries : dir[e] = "log"}

\* GET /admin/logs arrives: fs.readdir(logDir, callback) is issued
LogsRequest ==
    /\ lpc = "idle"
    /\ \E dir \in [Entries -> {"absent", "log", "other"}] : ldir' = dir
    /\ lpc' = "readdir"
    /\ UNCHANGED <<lfile, lres, OutsideLogs>>

\* the readdir callback: next(err) on an error, otherwise fs.readFile is
\* issued for every .log file
LogsReaddir ==
    /\ lpc = "readdir"
    /\ \/ /\ lres' = Append(lres, "err")
          /\ lpc' = "over"
          /\ UNCHANGED lfile
       \/ /\ lfile' = [e \in Entries |-> IF e \in LogFiles(ldir) THEN "pending" ELSE "none"]
          /\ lpc' = "reading"
          /\ UNCHANGED lres
    /\ UNCHANGED <<ldir, OutsideLogs>>

\* a readFile callback: next(err) on an error; otherwise the contents are
\* pushed and, if (logContents.length === logFiles.length), res.json is called
LogsReadFile ==
    /\ lpc = "reading"
    /\ \E e \in Entries, ok \in BOOLEAN :
         /\ lfile[e] = "pending"
         /\ lfile' = [lfile EXCEPT ![e] = IF ok THEN "ok" ELSE "failed"]
         /\ lres' = IF ~ok THEN Append(lres, "err")
                    ELSE IF Cardinality({x \in Entries : lfile'[x] = "ok"})
                              = Cardinality(LogFiles(ldir))
                    THEN Append(lres, "200")
                    ELSE lres
    /\ UNCHANGED <<ldir, lpc, OutsideLogs>>

NextLogs ==
    \/ LogsRequest
    \/ LogsReaddir
    \/ LogsReadFile

\* the logs route, on one initial store
SpecLogs == InitEntity /\ [][NextLogs]_lvars

\* -------------------------------------------------------- importer actions
\* what is not a variable of the importer
OutsideImport == <<vars, evars, mvars, lvars, dvars, zvars>>

\* const match = name.match(/(.*)\[(\d+)\]$/)
NameMatch(name) ==
    /\ Len(name) >= 4
    /\ name[Len(name)] = "]"
    /\ IsDigit(name[Len(name) - 1])
    /\ name[Len(name) - 2] = "["

\* fileType: match[1] when the name matches, the name otherwise
FileTypeOf(name) ==
    IF NameMatch(name) THEN SubSeq(name, 1, Len(name) - 3) ELSE name

\* index: parseInt(match[2], 10) when the name matches, null otherwise
IndexOf(name) ==
    IF NameMatch(name) THEN Num(DigitValue(name[Len(name) - 1])) ELSE Null

\* the test guarding abort(new Error('invalidMIMEType'))
RejectsMIME(name, mimeType) ==
    \/ ~allowedMIME(mimeType)
    \/ /\ name \in {<<ft>> : ft \in ImageFileTypes}
       /\ ~allowedImageMIME(mimeType)

\* abort(err): callback(err, null)
Abort(calls, message) == Append(calls, message)

\* bb.on('file'): onFile(name, file, info, files, abort)
OnFile ==
    /\ ipc = "parsing"
    /\ Len(parts) < MaxParts
    /\ \E name \in PartNames, mimeType \in MimeTypes :
         /\ parts' = Append(parts, [name |-> name, mimetype |-> mimeType])
         /\ icalls' = IF RejectsMIME(name, mimeType)
                      THEN Abort(icalls, "invalidMIMEType")
                      ELSE icalls
         /\ tmpFiles' = tmpFiles \cup {Len(parts')}
         /\ fileList' = Append(fileList, [part |-> Len(parts'),
                                          name |-> name,
                                          index |-> IndexOf(name),
                                          file_type |-> FileTypeOf(name),
                                          mimetype |-> mimeType])
    /\ UNCHANGED <<ipc, OutsideImport>>

\* bb.on('close'): callback(null, result) with the files array
ImportClose ==
    /\ ipc = "parsing"
    /\ ipc' = "closed"
    /\ icalls' = Append(icalls, "result")
    /\ UNCHANGED <<parts, fileList, tmpFiles, OutsideImport>>

NextImport ==
    \/ OnFile
    \/ ImportClose

\* the importer, on one initial store
SpecImport == InitEntity /\ [][NextImport]_ivars

\* ---------------------------------------------------- bulkDownload actions
\* what is not a variable of bulkDownload
OutsideDownload == <<vars, evars, mvars, lvars, ivars, zvars>>

\* get(id, client): null without an id or without a row, the file data otherwise
get(id) ==
    IF ~Truthy(id) THEN Null
    ELSE IF sanitize(id, "integer").n \in DOMAIN StoredFiles
         THEN Num(sanitize(id, "integer").n)
         ELSE Null

\* const { file={} } = fileData || {}
FileOf(fileData) ==
    IF fileData = Null THEN EmptyFile ELSE StoredFiles[fileData.n]

\* getFilePath(file, version): the scaled copy of an image unless the raw
\* version is asked for, otherwise the upload directory joined with fs_path
getFilePath(file, version) ==
    IF file.file_type \in ImageFileTypes /\ version # "raw"
    THEN <<"lowres", version, file.secure_token>>
    ELSE <<"upload", file.fs_path>>

\* the path is the upload directory itself
IsDirectory(p) == p = <<"upload", "">>

\* bulkDownload is called: without any query parameter next(invalidRequest)
BulkDownload ==
    /\ dpc = "idle"
    /\ \E id \in FileIdInputs, version \in Versions :
         /\ dreq' = [file_id |-> id, version |-> version]
         /\ IF ~Truthy(id)
            THEN /\ dres' = Append(dres, "invalidRequest")
                 /\ dpc' = "returned"
            ELSE /\ dpc' = "get"
                 /\ UNCHANGED dres
    /\ UNCHANGED <<dpath, dstream, dchunks, dpromise, OutsideDownload>>

\* the file is fetched and download(res, filePath) is started; the query of
\* get may throw, and so may createReadStream / pipe, which rejects the promise
\* and with it the await of bulkDownload; nothing in download resolves it
DownloadStart ==
    /\ dpc = "get"
    /\ \E outcome \in {"ok", "getThrows", "pipeThrows"} :
         LET fileData == get(sanitize(dreq.file_id, "integer"))
             file == FileOf(fileData)
         IN  IF outcome = "getThrows"
             THEN /\ dpc' = "threw"
                  /\ UNCHANGED <<dpath, dstream, dpromise, dres>>
             ELSE IF file = Null
             THEN /\ dres' = Append(dres, "invalidRequest")
                  /\ dpc' = "returned"
                  /\ UNCHANGED <<dpath, dstream, dpromise>>
             ELSE /\ dpath' = getFilePath(file, dreq.version)
                  /\ IF outcome = "pipeThrows"
                     THEN /\ dpromise' = "rejected"
                          /\ dpc' = "threw"
                          /\ UNCHANGED dstream
                     ELSE /\ dpromise' = "pending"
                          /\ dstream' = "open"
                          /\ dpc' = "download"
                  /\ UNCHANGED dres
    /\ UNCHANGED <<dreq, dchunks, OutsideDownload>>

\* readStream.pipe(res): a chunk of the file is written to the response
StreamData ==
    /\ dstream = "open"
    /\ ~IsDirectory(dpath)
    /\ dchunks < MaxChunks
    /\ dchunks' = dchunks + 1
    /\ UNCHANGED <<dpc, dreq, dpath, dstream, dpromise, dres, OutsideDownload>>

\* the read stream ends; download has no listener for it
StreamEnd ==
    /\ dstream = "open"
    /\ ~IsDirectory(dpath)
    /\ dstream' = "ended"
    /\ UNCHANGED <<dpc, dreq, dpath, dchunks, dpromise, dres, OutsideDownload>>

\* readStream.on('error') / res.on('error'): console.warn only
StreamError ==
    /\ dstream = "open"
    /\ dstream' = "failed"
    /\ UNCHANGED <<dpc, dreq, dpath, dchunks, dpromise, dres, OutsideDownload>>

NextDownload ==
    \/ BulkDownload
    \/ DownloadStart
    \/ StreamData
    \/ StreamEnd
    \/ StreamError

\* bulkDownload, on one initial store
SpecDownload == InitEntity /\ [][NextDownload]_dvars

\* the event loop runs every callback and continuation that is ready
SpecDownloadLive == SpecDownload /\ WF_dvars(NextDownload)

\* -------------------------------------------------------- sanitize actions
\* what is not a variable of the passes of sanitize
OutsideSanitize == <<vars, evars, mvars, lvars, ivars, dvars>>

\* setValue on a new instance: a value is sanitized by the type of its attribute
SanitizeFirst ==
    /\ passes = 0
    /\ \E data \in SanitizeInputs, datatype \in Datatypes :
         /\ stype' = datatype
         /\ sbefore' = data
         /\ sdata' = sanitize(data, datatype)
    /\ passes' = 1
    /\ UNCHANGED OutsideSanitize

\* an instance is built from getData() of another: the sanitized value is
\* sanitized again by the same type
SanitizeAgain ==
    /\ passes \in 1 .. MaxPasses - 1
    /\ sbefore' = sdata
    /\ sdata' = sanitize(sdata, stype)
    /\ passes' = passes + 1
    /\ UNCHANGED <<stype, OutsideSanitize>>

NextSanitize ==
    \/ SanitizeFirst
    \/ SanitizeAgain

\* passes of sanitize over one value, on one initial store
SpecSanitize == InitEntity /\ [][NextSanitize]_zvars

\* ================================================================ claims
Range(seq) == {seq[k] : k \in 1 .. Len(seq)}

Calls == Range(log)

\* position of the first occurrence of call c in the log (0 = never issued)
FirstPos(c) ==
    IF c \in Calls THEN CHOOSE k \in 1 .. Len(log) :
                            log[k] = c /\ \A j \in 1 .. k - 1 : log[j] # c
    ELSE 0

HandlerDone == pc = "done"

\* no call threw and the pool checkout did not fail
NoFailure == err = "" /\ ~unhandled

\* the node of the request existed with the controller's type when it arrived
PreFound == pre.row.type # "" /\ pre.row.type = req.nodeType

MoveWhitelist == {"unsorted", "sorted", "missing"}

\* C1: move of a found node to a found owner is rejected with
\* restrictedByComparisons whenever the node has a comparison, whatever
\* isRelatable returns and whatever the status is; mserve.move is not called.
C1_MoveRestrictedByComparisons ==
    (req.op = "move" /\ PreFound /\ pre.owner # NULL /\ pre.comparisons # {})
    => /\ "mserve.move" \notin Calls
       /\ (HandlerDone /\ NoFailure => responses = <<"restrictedByComparisons">>)

\* C1 witness: rejected although the owner is not relatable and the status is
\* outside the whitelist
C1_Witness ==
    /\ req.op = "move" /\ HandlerDone /\ PreFound /\ pre.owner # NULL
    /\ pre.comparisons # {} /\ ~pre.relatable /\ pre.row.status \notin MoveWhitelist
    /\ responses = <<"restrictedByComparisons">>

\* C2: move of a found node without comparisons whose status is not unsorted,
\* sorted or missing fails with invalidMove, whatever isRelatable returns, and
\* the node is not reparented.
C2_MoveInvalidStatus ==
    (req.op = "move" /\ PreFound /\ pre.owner # NULL /\ pre.comparisons = {}
        /\ pre.row.status \notin MoveWhitelist)
    => /\ "mserve.move" \notin Calls
       /\ nodes[req.id].owner_id = pre.row.owner_id
       /\ (HandlerDone /\ NoFailure => responses = <<"invalidMove">>)

\* C2 witness: a masterable capture is refused although its owner is relatable
C2_Witness ==
    /\ req.op = "move" /\ HandlerDone /\ PreFound /\ pre.owner # NULL
    /\ pre.comparisons = {} /\ pre.relatable /\ pre.row.status = "masterable"
    /\ responses = <<"invalidMove">>

\* C3: remove of a found node that has dependents fails with '23503' for every
\* comparison set; neither deleteComparisons nor mserve.remove is called.
C3_RemoveWithDependents ==
    (req.op = "remove" /\ PreFound /\ pre.hasDependents)
    => /\ "deleteComparisons" \notin Calls
       /\ "mserve.remove" \notin Calls
       /\ (HandlerDone /\ NoFailure => responses = <<"23503">>)

\* C3 witness: a node with dependents and no comparison is refused
C3_Witness ==
    /\ req.op = "remove" /\ HandlerDone /\ PreFound /\ pre.hasDependents
    /\ pre.comparisons = {}
    /\ responses = <<"23503">>

C5_NotFoundOnAbsentOrMistyped ==
    (req.op \in {"show", "edit", "update", "move", "remove"} /\ ~PreFound)
    => /\ Calls \cap MutatingCalls = {}
       /\ "200" \notin Range(responses)
       /\ (HandlerDone /\ NoFailure => responses = <<"notFound">>)

\* C5 witness: update of an id that holds a node of another type
C5_Witness ==
    /\ req.op = "update" /\ HandlerDone
    /\ pre.row.type # "" /\ pre.row.type # req.nodeType
    /\ responses = <<"notFound">>

C7_MoveRemoveInTransaction ==
    (req.op \in {"move", "remove"} /\ log # <<>>)
    => /\ log[1] = "BEGIN"
       /\ (HandlerDone /\ responses = <<"200">> => "COMMIT" \in Calls)
       /\ (HandlerDone /\ err # "" => "ROLLBACK" \in Calls)

\* C8: every handler releases the client it checked out exactly once; when the
\* checkout fails no release is attempted and an error is still reported.
C8_ReleaseExactlyOnce ==
    HandlerDone
    => /\ (client = "released"
             => Cardinality({k \in 1 .. Len(log) : log[k] = "release"}) = 1)
       /\ client # "held"
       /\ (client \in {"none", "undefined"}
             => "release(undefined)" \notin Calls /\ responses # <<>>)

\* C9: in create every BEGIN is followed by exactly one COMMIT or ROLLBACK
\* before the client is released.
C9_CreateClosesTransaction ==
    (req.op = "create" /\ "BEGIN" \in Calls /\ "release" \in Calls)
    => Cardinality({k \in 1 .. FirstPos("release") :
                       log[k] \in {"COMMIT", "ROLLBACK"}}) = 1

\* C10: in create mserve.insert and fserve.insert are issued after BEGIN and
\* before COMMIT, and no store statement is issued after the release.
C10_InsertsInsideTransaction ==
    req.op = "create"
    => \A k \in 1 .. Len(log) :
          log[k] \in {"mserve.insert", "fserve.insert"}
          => /\ \E b \in 1 .. k - 1 : log[b] = "BEGIN"
             /\ \A c \in 1 .. k - 1 : log[c] \notin {"COMMIT", "release"}

\* an insert of create has been issued
Inserted == Calls \cap {"mserve.insert", "fserve.insert"} # {}

\* C11: create for a non-root type whose owner_id resolves to no node answers
\* invalidRequest and performs no insert; create for a root type proceeds to
\* the importer without an owner.
C11_CreateNeedsOwnerUnlessRoot ==
    (req.op = "create" /\ pre.owner = NULL)
    => IF req.nodeType \in RootTypes
       THEN /\ "invalidRequest" \notin Range(responses)
            /\ (HandlerDone /\ err = "" /\ client = "released"
                  => "importer.receive" \in Calls /\ cb # "none")
       ELSE /\ ~Inserted
            /\ cb = "none"
            /\ (HandlerDone /\ NoFailure => responses = <<"invalidRequest">>)

\* C11 witness: a non-root create whose owner id names no node was refused
C11_Witness ==
    /\ req.op = "create" /\ HandlerDone /\ req.nodeType \notin RootTypes
    /\ req.owner_id # NULL /\ pre.owner = NULL
    /\ responses = <<"invalidRequest">>

\* C12: when a call of remove fails after deleteComparisons has run, the
\* comparison set of the node is what it was when the request arrived.
C12_RemoveIsAtomic ==
    (req.op = "remove" /\ HandlerDone /\ "deleteComparisons" \in Calls
        /\ "mserve.remove" \in Calls /\ err # "")
    => getComparisonsMetadata(req.id) = pre.comparisons

\* C20: update calls updateComparisons exactly for a capture node, with the
\* submitted captures of the opposite kind; for every other node type the
\* comparison sets are unchanged.
C20_UpdateComparisonsFromSubmitted ==
    (req.op = "update" /\ PreFound /\ HandlerDone /\ responses = <<"200">>)
    => IF req.nodeType \in CaptureTypes
       THEN /\ "updateComparisons" \in Calls
            /\ getComparisonsMetadata(req.id) =
                 {IF req.nodeType = "historic_captures"
                  THEN <<req.id, c>> ELSE <<c, req.id>> :
                    c \in {d \in {req.submitted} \ {NULL} :
                             nodes[d].type = Opposite(req.nodeType)}}
       ELSE /\ "updateComparisons" \notin Calls
            /\ comparisons = pre.all

\* ---------------------------------------------- claims on entity instances
\* an instance that holds schema.attributes and was not the last caller
Others == {j \in Insts : j # last.by /\ instances[j] = "shared"}

\* the last call was `op`, made by an instance that did not throw
Did(op) == last.op = op /\ ~last.threw

\* C13: setData or setValue on one instance changes no value another instance
\* of the same constructor returns, and an instance built with no data has
\* every value null, whatever was built or written before.
C13_InstancesShareNoState ==
    /\ (last.op \in {"setData", "setValue"} /\ Others # {} => last.altered = {})
    /\ (Did("new") /\ ~last.given =>
            \A k \in DOMAIN getData(last.by).data : getData(last.by).data[k] = Null)

\* C14: addAttribute extends only the instance it is called on: the schema's
\* attribute set and the keys another instance returns (built before or
\* after the call) never hold the added name.
C14_AddAttributeIsLocal ==
    /\ ExtraKey \notin DOMAIN attributes
    /\ (instances["other"] = "shared" => ExtraKey \notin DOMAIN getData("other").data)

\* C15: the keys of new Model(x).getData() are exactly the attributes the
\* schema declares, for x absent and for x with unknown keys.
C15_NewHasSchemaKeys ==
    Did("new") => DOMAIN getData(last.by).data = DeclaredKeys

\* what C16 expects to be stored: '' becomes null, the rest is sanitized
RoundTrip(value, type) ==
    IF value = Str(<<>>) THEN Null ELSE sanitize(value, type)

\* C16: after setData(x), getData() gives for every schema key of x the
\* sanitized x[k], the empty string having become null and a numeric string
\* a number.
C16_SetDataRoundTrip ==
    Did("setData") /\ last.given /\ instances[last.by] = "shared" =>
        \A k \in DOMAIN last.x \cap DeclaredKeys :
            getData(last.by).data[k] = RoundTrip(last.x[k], DeclaredType(k))

\* C17: for a name that is no attribute of the instance getValue returns
\* null and setValue changes nothing; for a known name setValue stores
\* sanitize(value, type) and changes no other attribute; neither throws.
C17_AccessorsIgnoreUnknownNames ==
    /\ \A i \in Insts, name \in Names :
          ~HasOwn(i, name) => getValue(i, name) = Null
    /\ (last.op = "setValue" =>
          /\ ~last.threw
          /\ IF HasOwn(last.by, last.name)
             THEN /\ getValue(last.by, last.name)
                        = sanitize(last.value, attributes[last.name].type)
                  /\ last.altered \subseteq {last.name}
             ELSE last.altered = {})

\* C17 witness: setValue of '12' on a known integer attribute stored 12
C17_Witness ==
    /\ Did("setValue") /\ HasOwn(last.by, last.name)
    /\ last.value = Str(<<"1", "2">>)
    /\ attributes[last.name].type = "integer"
    /\ getValue(last.by, last.name) = Num(12)

\* the attributes the last call wrote, with the value it was given
Written ==
    CASE last.op \in {"new", "setData"} /\ last.given ->
            {<<k, last.x[k]>> : k \in DOMAIN last.x \cap DOMAIN attributes}
      [] last.op \in {"setValue", "id", "addAttribute"} -> {<<last.name, last.value>>}
      [] last.op = "owner" /\ last.value.t \in {"number", "string"} ->
            {<<last.name, last.value>>}
      [] OTHER -> {}

\* C18: every write of the constructor, setData, setValue, the id setter,
\* the owner setter and addAttribute stores the value sanitized by the
\* type of the attribute.
C18_EveryWriteSanitizes ==
    last.op # "none" /\ ~last.threw /\ instances[last.by] = "shared" =>
        \A w \in Written :
            w[1] \in DOMAIN attributes =>
                attributes[w[1]].value = sanitize(w[2], attributes[w[1]].type)

\* C19: the record update hands to mserve.update holds sanitize(d[k]) for
\* the schema keys of the submitted data d and the stored value for the
\* other schema keys.
C19_UpdateMergesSubmitted ==
    Did("update") =>
        \A k \in DeclaredKeys :
            last.handed[k] = IF k \in DOMAIN last.x
                             THEN sanitize(last.x[k], DeclaredType(k))
                             ELSE StoredMetadata[k]

\* ------------------------------------------------- claims C21 and following
\* C21: remove of a found node without dependents calls deleteComparisons
\* before mserve.remove when the node has comparisons and not at all when it
\* has none; after a successful remove neither the node nor a comparison
\* anchored at it is left.
C21_RemoveDeletesComparisonsFirst ==
    (req.op = "remove" /\ PreFound /\ ~pre.hasDependents)
    => /\ (pre.comparisons = {} => "deleteComparisons" \notin Calls)
       /\ (pre.comparisons # {} /\ "mserve.remove" \in Calls
             => 0 < FirstPos("deleteComparisons")
                /\ FirstPos("deleteComparisons") < FirstPos("mserve.remove"))
       /\ (responses = <<"200">>
             => ~Exists(req.id) /\ getComparisonsMetadata(req.id) = {})

\* C21 witness: a node with a comparison was removed, deleteComparisons
\* having been issued before mserve.remove
C21_Witness ==
    /\ req.op = "remove" /\ PreFound /\ ~pre.hasDependents
    /\ pre.comparisons # {}
    /\ 0 < FirstPos("deleteComparisons")
    /\ FirstPos("deleteComparisons") < FirstPos("mserve.remove")
    /\ responses = <<"200">> /\ ~Exists(req.id)

\* the request addresses a node that a create inserted and that has no
\* dependents
OnCreatedNode == req.id \notin InitialIds /\ PreFound /\ ~pre.hasDependents

\* C22: show, update and remove of a node that create inserted, without
\* dependents, answer 200 (and nothing else) when no call of the store fails.
C22_CrudSequenceSucceeds ==
    (req.op \in {"show", "update", "remove"} /\ OnCreatedNode /\ RequestOver
        /\ err = "" /\ client \in {"held", "released"})
    => responses = <<"200">> /\ ~unhandled

\* the characters of chars after its last "/"
RECURSIVE LastSegment(_)
LastSegment(chars) ==
    IF \E k \in 1 .. Len(chars) : chars[k] = "/"
    THEN LastSegment(Tail(chars))
    ELSE chars

\* C23: the node createNode returns has the item's entity type, the id and
\* type of the owner node found (both null when none is found), and as
\* fs_path the owner's fs_path (the item's fsRoot when none is found) joined
\* with a slug of the label made of letters, digits, '_' and '-' only.
C23_CreateNodeFromOwner ==
    Did("createNode") /\ last.given =>
        LET node == last.handed IN
        /\ node["type"] = Str(EntityName)
        /\ \A k \in 1 .. Len(LastSegment(node["fs_path"].s)) :
              LastSegment(node["fs_path"].s)[k] \in SlugChars
        /\ IF last.found
           THEN /\ node["owner_id"] = Num(parseInt(getValue(last.by, "owner_id")).n)
                /\ node["owner_type"] = Str(OwnerType)
                /\ node["fs_path"] = Str(PathJoin(OwnerFsPath, Slug(last.label)))
           ELSE /\ node["owner_id"] = Null
                /\ node["owner_type"] = Null
                /\ node["fs_path"] = Str(PathJoin(fsRoot, Slug(last.label)))

\* C24: after clear() getData() returns every schema key mapped to null, and
\* a setValue on a schema key takes effect on every instance, cleared or not.
C24_ClearKeepsAttributes ==
    /\ (last.op = "clear" =>
          /\ ~last.threw /\ ~getData(last.by).threw
          /\ \A k \in DeclaredKeys :
                /\ k \in DOMAIN getData(last.by).data
                /\ getData(last.by).data[k] = Null)
    /\ (last.op = "setValue" /\ last.name \in DeclaredKeys =>
          getValue(last.by, last.name) = sanitize(last.value, DeclaredType(last.name)))

\* C25: a create request that got its client and left no rejection unhandled
\* has, when the handler and the importer callback are over, called exactly
\* one of next(err) and res.json, once.
C25_CreateRespondsOnce ==
    (req.op = "create" /\ RequestOver /\ client = "released" /\ ~unhandled)
    => Len(responses) = 1

\* the statements of file f that are durable
Durable(f) == {stmt \in {"touch", "file", "metadata"} : <<f, stmt>> \in committed}

\* C26: when moveFiles is over, each file has all three of its statements
\* durable or none of them.
C26_MoveFilesPerFileAtomic ==
    (\A f \in Files : mpc[f] \in {"done", "failed"})
    => \A f \in Files : Durable(f) \in {{}, {"touch", "file", "metadata"}}

\* every callback the logs request has issued has run
LogsSettled ==
    \/ lpc = "over"
    \/ lpc = "reading" /\ \A e \in Entries : lfile[e] # "pending"

\* C27: once every callback of a logs request has run, exactly one response
\* has been produced, whatever the directory holds and whichever reads fail.
C27_LogsRespondsOnce == LogsSettled => Len(lres) = 1

\* a part the importer has to reject: its MIME type is not allowed, or its
\* file type is an image type and its MIME type is not an allowed image type
MustReject(p) ==
    \/ ~allowedMIME(p.mimetype)
    \/ /\ FileTypeOf(p.name) \in {<<ft>> : ft \in ImageFileTypes}
       /\ ~allowedImageMIME(p.mimetype)

\* C28: a part that has to be rejected was answered with invalidMIMEType, is
\* not written to a temporary file and is not in the files array.
C28_RejectedPartNotStored ==
    \A p \in 1 .. Len(parts) :
        MustReject(parts[p]) =>
            /\ "invalidMIMEType" \in Range(icalls)
            /\ p \notin tmpFiles
            /\ \A k \in 1 .. Len(fileList) : fileList[k].part # p

\* the file stream of a download has ended or failed
StreamOver == dstream \in {"ended", "failed"}

\* the file_id of the request matches no file
NoSuchFile == get(sanitize(dreq.file_id, "integer")) = Null

\* C30: once the file stream has ended or failed, bulkDownload eventually
\* returns to its caller; for a file_id that matches no file it answers
\* invalidRequest and starts no download.
C30_BulkDownloadReturns ==
    /\ StreamOver ~> dpc \in {"returned", "threw"}
    /\ [](dpc \notin {"idle", "get"} /\ Truthy(dreq.file_id) /\ NoSuchFile
            => dstream = "none" /\ dpromise = "none")

\* C29: sanitizing a sanitized value again by the same type leaves it as it is.
C29_SanitizeIdempotent == passes >= 2 => sdata = sbefore
====
